---------------------------- MODULE Spec2Model ----------------------------
(* A model of src/io/rio_raster.py (class RioRaster): raster handles that   *)
(* own a dataset reference, and the operations that open, read, clip, pad,  *)
(* reclassify and write them.  Datasets are north-up grids with integer     *)
(* world coordinates; the affine transform is kept as its four non-zero     *)
(* coefficients a, c, e, f  (x = c + a*col,  y = f + e*row).                *)
EXTENDS Integers, Sequences, FiniteSets, TLC

(***************************************************************************)
(* Bounds of the model                                                     *)
(***************************************************************************)
MaxHandles == 2

MaxCalls == 3

(***************************************************************************)
(* Python values                                                           *)
(***************************************************************************)
None == [kind |-> "None"]

Min(x, y) == IF x <= y THEN x ELSE y

Max(x, y) == IF x >= y THEN x ELSE y

\* math.floor(n / d) for integers n and d # 0 (TLA+ \div floors for d > 0)
FloorDiv(n, d) == IF d > 0 THEN n \div d ELSE (0 - n) \div (0 - d)

\* math.ceil(n / d)
CeilDiv(n, d) == 0 - FloorDiv(0 - n, d)

(***************************************************************************)
(* Strings that the code inspects are sequences of characters              *)
(***************************************************************************)
\* `sub in s`
Contains(sub, s) ==
    \E i \in 1..(Len(s) - Len(sub) + 1) : SubSeq(s, i, i + Len(sub) - 1) = sub

\* s.endswith(suf)
EndsWith(s, suf) ==
    /\ Len(s) >= Len(suf)
    /\ SubSeq(s, Len(s) - Len(suf) + 1, Len(s)) = suf

\* one character of str.lower()
LowerChar(ch) ==
    CASE ch = "C" -> "c"
      [] ch = "O" -> "o"
      [] ch = "G" -> "g"
      [] ch = "P" -> "p"
      [] ch = "R" -> "r"
      [] ch = "J" -> "j"
      [] OTHER -> ch

\* str.lower()
lower(s) == [i \in 1..Len(s) |-> LowerChar(s[i])]

\* s.rfind(ch), 1-based, 0 when absent
rfind(s, ch) ==
    IF \E i \in 1..Len(s) : s[i] = ch
    THEN CHOOSE i \in 1..Len(s) : s[i] = ch /\ \A j \in (i + 1)..Len(s) : s[j] # ch
    ELSE 0

\* os.path.splitext(p): the extension starts at the last dot of the last
\* path component, unless only dots precede it there; it keeps its dot.
splitext(p) ==
    LET sepIndex == rfind(p, "/")
        dotIndex == rfind(p, ".")
    IN  IF /\ dotIndex > sepIndex
           /\ \E k \in (sepIndex + 1)..(dotIndex - 1) : p[k] # "."
        THEN <<SubSeq(p, 1, dotIndex - 1), SubSeq(p, dotIndex, Len(p))>>
        ELSE <<p, <<>>>>

(***************************************************************************)
(* Paths and the file system                                               *)
(***************************************************************************)
PathATif == <<"a", ".", "t", "i", "f">>

PathBTif == <<"b", ".", "t", "i", "f">>

PathMissing == <<"m", ".", "t", "i", "f">>

PathPrj == <<"a", ".", "p", "r", "j">>

PathPrjUpper == <<"b", ".", "P", "R", "J">>

PathVsimem == <<"/", "v", "s", "i", "m", "e", "m", "/", "x">>

PathOutTif == <<"o", ".", "t", "i", "f">>

PathOutCog == <<"o", ".", "C", "O", "G">>

PathReadOnly == <<"r", "/", "o", ".", "t", "i", "f">>

Paths == {PathATif, PathBTif, PathMissing, PathPrj, PathPrjUpper, PathVsimem,
          PathOutTif, PathOutCog, PathReadOnly}

\* paths whose parent directory refuses writes
ReadOnlyPaths == {PathReadOnly}

\* what is on disk before the program runs
InitialFs ==
    [p \in Paths |->
        IF p \in {PathATif, PathBTif, PathPrj, PathPrjUpper} THEN "file" ELSE "absent"]

VsimemPrefix == <<"/", "v", "s", "i", "m", "e", "m", "/">>

VsiPythonFileLike ==
    <<"/", "v", "s", "i", "p", "y", "t", "h", "o", "n", "f", "i", "l", "e",
      "l", "i", "k", "e", "/">>


(***************************************************************************)
(* Datasets (rio.DatasetReader)                                            *)
(***************************************************************************)
\* a numeric value, as opposed to None
Num(v) == [kind |-> "num", v |-> v]

\* transform * (col, row) for b = d = 0
Affine(a, c, e, f) == [a |-> a, c |-> c, e |-> e, f |-> f]

\* dataset.meta
MetaOf(ds) ==
    [driver |-> ds.driver, dtype |-> ds.dtype, nodata |-> ds.nodata,
     width |-> ds.width, height |-> ds.height, count |-> ds.count,
     crs |-> ds.crs, transform |-> ds.transform]

\* a dataset object holding `data` (bands x rows x cols) under `meta`; oid is
\* the identity of the object, 0 until the call that creates it has returned
DatasetOf(name, meta, data, descriptions) ==
    [kind |-> "dataset", oid |-> 0, name |-> name,
     driver |-> meta.driver, dtype |-> meta.dtype, nodata |-> meta.nodata,
     width |-> meta.width, height |-> meta.height, count |-> meta.count,
     crs |-> meta.crs, transform |-> meta.transform,
     data |-> data, descriptions |-> descriptions]

\* pixel values of the rasters on disk
PixelOf(seed, b, r, c) == (seed + 3 * b + 2 * r + c) % 7

GridOf(seed, count, height, width) ==
    [b \in 1..count |-> [r \in 1..height |-> [c \in 1..width |-> PixelOf(seed, b, r, c)]]]

\* a.tif: 2 bands, 3 x 3 pixels of size 4, bounds (0, 0, 12, 12), nodata 9
RasterA ==
    DatasetOf(PathATif,
              [driver |-> "GTiff", dtype |-> "int16", nodata |-> Num(9),
               width |-> 3, height |-> 3, count |-> 2, crs |-> "LOCAL:A",
               transform |-> Affine(4, 0, -4, 12)],
              GridOf(0, 2, 3, 3), <<"red", "nir">>)

\* b.tif: 1 band, 2 x 2 pixels of size 4, bounds (8, 8, 16, 16), no nodata
RasterB ==
    DatasetOf(PathBTif,
              [driver |-> "GTiff", dtype |-> "int16", nodata |-> None,
               width |-> 2, height |-> 2, count |-> 1, crs |-> "LOCAL:A",
               transform |-> Affine(4, 8, -4, 16)],
              GridOf(1, 1, 2, 2), <<"pan">>)

\* an already-open dataset read from a Python file object
RasterFileLike ==
    DatasetOf(VsiPythonFileLike \o <<"7">>,
              [driver |-> "GTiff", dtype |-> "int16", nodata |-> Num(0),
               width |-> 2, height |-> 1, count |-> 1, crs |-> "LOCAL:A",
               transform |-> Affine(4, 4, -4, 8)],
              GridOf(2, 1, 1, 2), <<"dem">>)

\* the raster stored in a file, None when the file holds no raster
FileRaster(p) ==
    CASE p = PathATif -> RasterA
      [] p = PathBTif -> RasterB
      [] OTHER -> None

\* dataset.bounds for b = d = 0: (left, bottom, right, top)
DatasetBounds(ds) ==
    LET t == ds.transform
    IN  <<t.c, t.f + t.e * ds.height, t.c + t.a * ds.width, t.f>>

(***************************************************************************)
(* Outcomes of a call: a returned value or a raised exception              *)
(***************************************************************************)
Return(v) == [exc |-> "none", value |-> v]

Raise(e) == [exc |-> e, value |-> None]

\* a reference to the handle with identity h
Ref(h) == [kind |-> "RioRaster", h |-> h]

\* where building an in-memory dataset can break
MaterializeSteps == {"none", "create", "write", "reopen"}

\* name of a rio.MemoryFile dataset
MemName == VsimemPrefix \o <<"u">>

\* RioRaster.rio_dataset_from_array: the dataset exists only once every
\* step (memfile.open, dst.write per band, memfile.open) has succeeded
rio_dataset_from_array(data, meta, descriptions, fail) ==
    IF fail # "none"
    THEN Raise("RasterioIOError")
    ELSE Return(DatasetOf(MemName, meta, data, descriptions))

(***************************************************************************)
(* State                                                                   *)
(***************************************************************************)
VARIABLES
    dataset,    \* dataset[h]: RioRaster.dataset of handle h (None: empty)
    nhandles,   \* handles 1..nhandles have been constructed
    fs,         \* fs[p]: "absent", "file" or "dir"
    last,       \* the most recent call: operation, arguments, outcome
    ncalls,     \* number of calls made so far
    ndatasets   \* number of dataset objects created so far

vars == <<dataset, nhandles, fs, last, ncalls, ndatasets>>

Handles == 1..nhandles

\* the record of a call
Call(op, self, args, pre, out, printed) ==
    [op |-> op, self |-> self, args |-> args, pre |-> pre,
     exc |-> out.exc, ret |-> out.value, printed |-> printed]

\* one more call, while the bound allows
Tick == ncalls < MaxCalls /\ ncalls' = ncalls + 1

\* is ds a dataset object this call has created
created(ds) == ds # None /\ ds.oid = 0

\* the object as the handle holds it: a new object gets the next identity
Stamp(ds) == IF created(ds) THEN [ds EXCEPT !.oid = ndatasets + 1] ELSE ds

Init ==
    /\ dataset = [h \in 1..MaxHandles |-> None]
    /\ nhandles = 0
    /\ fs = InitialFs
    /\ last = Call("start", 0, <<>>, None, Return(None), <<>>)
    /\ ncalls = 0
    /\ ndatasets = 0

(***************************************************************************)
(* Opening                                                                 *)
(***************************************************************************)
\* os.path.exists
exists(fsx, p) == p \in DOMAIN fsx /\ fsx[p] # "absent"

\* rio.open(src, mode='r+')
rio_open(fsx, p) ==
    IF fsx[p] = "file" /\ FileRaster(p) # None
    THEN Return(FileRaster(p))
    ELSE Raise("RasterioIOError")

\* the body of the try block of RioRaster.set_dataset, from the dataset
\* the handle holds (cur): the dataset it holds afterwards, or the exception
set_dataset_try(cur, src, fsx, fail) ==
    LET bound ==
            CASE src.kind = "DatasetReader" ->
                    IF Contains(VsiPythonFileLike, src.ds.name)
                    THEN rio_dataset_from_array(src.ds.data, MetaOf(src.ds),
                                                src.ds.descriptions, fail)
                    ELSE Return(src.ds)
              [] src.kind = "str" ->
                    IF Contains(VsimemPrefix, src.path)
                    THEN Raise("TypeError")
                    ELSE IF exists(fsx, src.path)
                         THEN rio_open(fsx, src.path)
                         ELSE Raise("FileNotFoundError")
              [] OTHER -> Return(cur)
    IN  IF bound.exc # "none" THEN bound
        ELSE IF bound.value = None THEN Raise("ValueError")
        ELSE bound

\* RioRaster.set_dataset: every exception of the try block is caught and
\* its traceback printed; the call itself returns None
set_dataset_result(cur, src, fsx, fail) ==
    LET t == set_dataset_try(cur, src, fsx, fail)
    IN  [dataset |-> IF t.exc = "none" THEN t.value ELSE cur,
         out |-> Return(None),
         printed |-> IF t.exc = "none" THEN <<>> ELSE <<t.exc>>]

\* CRS.from_wkt of the text of a .prj file
PrjCrs(p) == "LOCAL:B"

\* RioRaster.add_crs_from_prj
add_crs_from_prj(cur, prj_file) ==
    LET ext == splitext(prj_file)[2]
    IN  IF ext = <<"p", "r", "j">>
        THEN IF cur = None
             THEN [dataset |-> cur, out |-> Raise("AttributeError")]
             ELSE [dataset |-> [cur EXCEPT !.crs = PrjCrs(prj_file)], out |-> Return(None)]
        ELSE [dataset |-> cur, out |-> Return(None)]

\* a str argument
Str(p) == [kind |-> "str", path |-> p]

\* rio.DatasetReader argument
Reader(ds) == [kind |-> "DatasetReader", ds |-> ds]

\* the datasets the handles hold
OpenDatasets == {dataset[h] : h \in Handles} \ {None}

\* sources a caller passes to RioRaster(...) and set_dataset(...)
Sources ==
    {Str(p) : p \in {PathATif, PathBTif, PathMissing, PathVsimem, PathPrj, PathOutTif}}
        \cup {Reader(d) : d \in OpenDatasets \cup {RasterFileLike}}
        \cup {[kind |-> "bytes"]}

PrjArgs == {None} \cup {Str(p) : p \in {PathPrj, PathPrjUpper, PathMissing}}

\* RioRaster.__init__ from the class default dataset = None
init_result(src, prj_path, fsx, fail) ==
    IF src = None
    THEN [dataset |-> None, out |-> Return(None), printed |-> <<>>]
    ELSE LET s == set_dataset_result(None, src, fsx, fail)
         IN  IF prj_path # None /\ exists(fsx, prj_path.path)
             THEN LET c == add_crs_from_prj(s.dataset, prj_path.path)
                  IN  [dataset |-> c.dataset, out |-> c.out, printed |-> s.printed]
             ELSE s

\* RioRaster(src, prj_path)
New(src, prj_path, fail) ==
    /\ Tick
    /\ nhandles < MaxHandles
    /\ LET r == init_result(src, prj_path, fs, fail)
           h == nhandles + 1
       IN  IF r.out.exc = "none"
           THEN /\ dataset' = [dataset EXCEPT ![h] = Stamp(r.dataset)]
                /\ nhandles' = h
                /\ ndatasets' = IF created(r.dataset) THEN ndatasets + 1 ELSE ndatasets
                /\ last' = Call("__init__", h, <<src, prj_path>>, None,
                                Return(Ref(h)), r.printed)
           ELSE /\ UNCHANGED <<dataset, nhandles, ndatasets>>
                /\ last' = Call("__init__", 0, <<src, prj_path>>, None, r.out, r.printed)
    /\ UNCHANGED fs

\* h.set_dataset(src)
SetDataset(h, src, fail) ==
    /\ Tick
    /\ LET r == set_dataset_result(dataset[h], src, fs, fail)
       IN  /\ dataset' = [dataset EXCEPT ![h] = Stamp(r.dataset)]
           /\ ndatasets' = IF created(r.dataset) THEN ndatasets + 1 ELSE ndatasets
           /\ last' = Call("set_dataset", h, <<src>>, dataset[h], r.out, r.printed)
    /\ UNCHANGED <<nhandles, fs>>

(***************************************************************************)
(* Accessors                                                               *)
(***************************************************************************)
NaN == [kind |-> "nan"]

\* RioRaster.get_meta
get_meta(cur) ==
    IF cur = None THEN Raise("AttributeError") ELSE Return(MetaOf(cur))

\* RioRaster.get_crs
get_crs(cur) ==
    IF cur = None THEN Raise("AttributeError") ELSE Return(cur.crs)

\* RioRaster.get_geo_transform
get_geo_transform(cur) ==
    IF cur = None THEN Raise("AttributeError") ELSE Return(cur.transform)

\* RioRaster.get_nodata_value
get_nodata_value(cur) ==
    IF cur = None THEN Raise("AttributeError") ELSE Return(cur.nodata)

\* data_arr[data_arr == nodata] = np.nan on a floating array
NoData2NaN(grid, nodata) ==
    [r \in DOMAIN grid |->
        [c \in DOMAIN grid[r] |->
            IF nodata # None /\ nodata.v = grid[r][c] THEN NaN ELSE Num(grid[r][c])]]

\* RioRaster.get_data_array; band is None or Num(b)
get_data_array(cur, band, convert_no_data_2_nan) ==
    IF cur = None THEN Raise("ValueError")
    ELSE IF band # None /\ band.v # 0 /\ band.v \notin 1..cur.count
         THEN Raise("IndexError")
    ELSE LET data_arr ==
                 IF band # None /\ band.v # 0
                 THEN <<cur.data[band.v]>>
                 ELSE cur.data
             rank == IF band # None /\ band.v # 0 THEN 2 ELSE 3
         IN  IF convert_no_data_2_nan
             THEN Return([rank |-> rank, dtype |-> "float32",
                          data |-> [b \in DOMAIN data_arr |->
                                        NoData2NaN(data_arr[b], cur.nodata)]])
             ELSE Return([rank |-> rank, dtype |-> cur.dtype, data |-> data_arr])

AccessorNames ==
    {"get_meta", "get_crs", "get_geo_transform", "get_nodata_value"}

accessor(name, cur) ==
    CASE name = "get_meta" -> get_meta(cur)
      [] name = "get_crs" -> get_crs(cur)
      [] name = "get_geo_transform" -> get_geo_transform(cur)
      [] name = "get_nodata_value" -> get_nodata_value(cur)

\* h.get_meta(), h.get_crs(), h.get_geo_transform(), h.get_nodata_value()
Access(h, name) ==
    /\ Tick
    /\ last' = Call(name, h, <<>>, dataset[h], accessor(name, dataset[h]), <<>>)
    /\ UNCHANGED <<dataset, nhandles, fs, ndatasets>>

BandArgs == {None, Num(0), Num(1), Num(2)}

\* h.get_data_array(band, convert_no_data_2_nan)
GetDataArray(h, band, convert) ==
    /\ Tick
    /\ last' = Call("get_data_array", h, <<band, convert>>, dataset[h],
                    get_data_array(dataset[h], band, convert), <<>>)
    /\ UNCHANGED <<dataset, nhandles, fs, ndatasets>>

(***************************************************************************)
(* Areas of interest                                                       *)
(***************************************************************************)
\* str(crs).lower()
LowerCrs(crs) ==
    CASE crs = "LOCAL:A" -> "local:a"
      [] crs = "LOCAL:B" -> "local:b"
      [] OTHER -> crs

\* The two coordinate systems of the model are grids shifted against each
\* other: the origin of LOCAL:B lies at (-10, -10) of LOCAL:A.
CrsShift(crs) == IF LowerCrs(crs) = "local:b" THEN 10 ELSE 0

\* GeoDataFrame.to_crs on boxes (minx, miny, maxx, maxy)
to_crs(boxes, from, to) ==
    LET d == CrsShift(to) - CrsShift(from)
    IN  [i \in DOMAIN boxes |-> [k \in 1..4 |-> boxes[i][k] + d]]

Gdf(crs, boxes) == [kind |-> "GeoDataFrame", crs |-> crs, boxes |-> boxes]

Polygon(b) == [kind |-> "Polygon", box |-> b]

\* the areas of interest callers clip to
AoiArgs ==
    { Gdf("LOCAL:A", << <<4, 4, 8, 8>> >>),
      Gdf("LOCAL:A", << <<1, 3, 7, 9>> >>),
      Gdf("LOCAL:A", << <<20, 20, 24, 24>> >>),
      Gdf("LOCAL:A", << <<12, 0, 16, 4>> >>),
      Gdf("LOCAL:A", << <<20, 20, 24, 24>>, <<4, 4, 8, 8>> >>),
      Gdf("local:a", << <<9, 9, 11, 15>> >>),
      Gdf("LOCAL:B", << <<14, 14, 18, 18>> >>),
      Gdf("LOCAL:B", << <<4, 4, 8, 8>> >>),
      Polygon(<<-3, 5, 3, 13>>) }

\* shapely: box(*a).intersects(box(*b)), boundaries included
box_intersects(a, b) ==
    /\ a[1] <= b[3] /\ b[1] <= a[3]
    /\ a[2] <= b[4] /\ b[2] <= a[4]

\* RioRaster.get_bounds
get_bounds(cur) ==
    IF cur = None THEN Raise("AttributeError") ELSE Return(DatasetBounds(cur))

\* all(not raster_box.intersects(box(*aoi_bounds)) for aoi_bounds in ...)
does_not_intersect(raster_bounds, aoi_bounds_list) ==
    \A i \in DOMAIN aoi_bounds_list :
        ~ box_intersects(raster_bounds, aoi_bounds_list[i])

(***************************************************************************)
(* rasterio.mask.mask(dataset, geometries, crop=True, nodata=0)            *)
(***************************************************************************)
SeqMin(s, k) == CHOOSE v \in {s[i][k] : i \in DOMAIN s} :
                    \A i \in DOMAIN s : v <= s[i][k]

SeqMax(s, k) == CHOOSE v \in {s[i][k] : i \in DOMAIN s} :
                    \A i \in DOMAIN s : v >= s[i][k]

\* the pixel window of the shapes' bounds, rounded outwards and cut to the
\* raster: <<col_start, row_start, col_stop, row_stop>>
geometry_window(ds, boxes) ==
    LET t == ds.transform
        left == SeqMin(boxes, 1)
        bottom == SeqMin(boxes, 2)
        right == SeqMax(boxes, 3)
        top == SeqMax(boxes, 4)
    IN  << Max(FloorDiv(left - t.c, t.a), 0),
           Max(FloorDiv(top - t.f, t.e), 0),
           Min(CeilDiv(right - t.c, t.a), ds.width),
           Min(CeilDiv(bottom - t.f, t.e), ds.height) >>

\* is the centre of pixel (row, col), counted from 1, inside one of the boxes
centre_inside(t, row, col, boxes) ==
    LET x2 == 2 * t.c + t.a * (2 * col - 1)
        y2 == 2 * t.f + t.e * (2 * row - 1)
    IN  \E i \in DOMAIN boxes :
            /\ 2 * boxes[i][1] <= x2 /\ x2 <= 2 * boxes[i][3]
            /\ 2 * boxes[i][2] <= y2 /\ y2 <= 2 * boxes[i][4]

\* (out_img, out_transform), or ValueError when the shapes' window and the
\* raster share no pixel
mask(ds, boxes, nodata) ==
    LET w == geometry_window(ds, boxes)
        t == ds.transform
    IN  IF w[3] <= w[1] \/ w[4] <= w[2]
        THEN Raise("ValueError")
        ELSE Return(
          [out_img |->
             [b \in 1..ds.count |->
                [r \in 1..(w[4] - w[2]) |->
                   [c \in 1..(w[3] - w[1]) |->
                      IF centre_inside(t, w[2] + r, w[1] + c, boxes)
                      THEN ds.data[b][w[2] + r][w[1] + c]
                      ELSE nodata]]],
           out_transform |-> Affine(t.a, t.c + t.a * w[1], t.e, t.f + t.e * w[2])])

(***************************************************************************)
(* RioRaster.clip_raster                                                   *)
(***************************************************************************)
ClipSteps == MaterializeSteps \cup {"mask"}

\* what a call leaves behind: the handle's own dataset, the exception raised
\* ("none": it returned), what it returns ("self", "new": a new handle,
\* "None"), and the dataset a new handle holds
Effect(self_ds, exc, returns, fresh_ds, printed) ==
    [dataset |-> self_ds, exc |-> exc, returns |-> returns,
     fresh_ds |-> fresh_ds, printed |-> printed]

\* an in-place operation that lets go of its dataset before the new one
\* exists: a failure leaves the handle empty
RaisedAfterRelease(cur, exc) == Effect(None, exc, "None", None, <<>>)

\* an exception leaves the call before `self.dataset = ...` is reached: the
\* handle keeps what it held
Raised(cur, exc) == Effect(cur, exc, "None", None, <<>>)

NoIntersectionMessage == <<"Raster doesn't intersects with AOI">>

\* a short-circuit that returns the empty handle but keeps the receiver bound
no_intersection_keeps(cur, in_place) ==
    Effect(cur, "none", "new",
           init_result(None, None, <<>>, "none").dataset, NoIntersectionMessage)

\* the branch `if does_not_intersect:`: the message, the handle emptied
\* when in place, and RioRaster(None) returned
no_intersection(cur, in_place) ==
    Effect(IF in_place THEN None ELSE cur, "none", "new",
           init_result(None, None, <<>>, "none").dataset, NoIntersectionMessage)

\* a clip that forgets in_place and always rebinds the receiver
clipped_always_in_place(cur, made, in_place) ==
    Effect(made, "none", "self", None, <<>>)

\* the end of clip_raster, with the dataset made from the clipped array:
\* rebind the handle and return it, or return RioRaster(made)
clipped(cur, made, in_place) ==
    IF in_place
    THEN Effect(made, "none", "self", None, <<>>)
    ELSE Effect(cur, "none", "new",
                init_result(Reader(made), None, <<>>, "none").dataset, <<>>)

\* from `if does_not_intersect:` on, with geo in the raster's CRS
clip_raster_geo(cur, geo, in_place, fail) ==
    IF does_not_intersect(get_bounds(cur).value, geo)
    THEN no_intersection(cur, in_place)
    ELSE IF fail = "mask" THEN Raised(cur, "RasterioIOError")
    ELSE LET nodata_value == 0
             m == mask(cur, geo, nodata_value)
         IN  IF m.exc # "none" THEN Raised(cur, m.exc)
             ELSE LET out_img == m.value.out_img
                      out_meta == [MetaOf(cur) EXCEPT
                                      !.driver = "GTiff",
                                      !.height = Len(out_img[1]),
                                      !.width = Len(out_img[1][1]),
                                      !.transform = m.value.out_transform,
                                      !.nodata = Num(nodata_value),
                                      !.crs = cur.crs]
                      d == rio_dataset_from_array(out_img, out_meta,
                                                  cur.descriptions, fail)
                  IN  IF d.exc # "none" THEN Raised(cur, d.exc)
                      ELSE clipped(cur, d.value, in_place)

\* RioRaster.clip_raster(aoi, in_place, crs) on a handle holding cur
clip_raster(cur, aoi, in_place, crs, fail) ==
    LET gdf == IF aoi.kind = "Polygon" THEN Gdf(crs, <<aoi.box>>) ELSE aoi
        own == get_crs(cur)
    IN  IF own.exc # "none" THEN Raised(cur, own.exc)
        ELSE LET geo == IF LowerCrs(gdf.crs) # LowerCrs(own.value)
                        THEN to_crs(gdf.boxes, gdf.crs, own.value)
                        ELSE gdf.boxes
             IN  clip_raster_geo(cur, geo, in_place, fail)

CrsArgs == {"LOCAL:A", "LOCAL:B"}

\* the state change of a call on handle h with the given effect
Apply(op, h, args, eff) ==
    LET fresh == eff.exc = "none" /\ eff.returns = "new"
    IN  /\ fresh => nhandles < MaxHandles
        /\ dataset' = IF fresh
                      THEN [dataset EXCEPT ![h] = Stamp(eff.dataset),
                                           ![nhandles + 1] = Stamp(eff.fresh_ds)]
                      ELSE [dataset EXCEPT ![h] = Stamp(eff.dataset)]
        /\ ndatasets' = IF created(eff.dataset) \/ (fresh /\ created(eff.fresh_ds))
                        THEN ndatasets + 1 ELSE ndatasets
        /\ nhandles' = IF fresh THEN nhandles + 1 ELSE nhandles
        /\ last' = Call(op, h, args, dataset[h],
                        IF eff.exc # "none" THEN Raise(eff.exc)
                        ELSE IF fresh THEN Return(Ref(nhandles + 1))
                        ELSE IF eff.returns = "self" THEN Return(Ref(h))
                        ELSE Return(None),
                        eff.printed)

\* h.clip_raster(aoi, in_place, crs)
ClipRaster(h, aoi, in_place, crs, fail) ==
    /\ Tick
    /\ Apply("clip_raster", h, <<aoi, in_place, crs>>,
             clip_raster(dataset[h], aoi, in_place, crs, fail))
    /\ UNCHANGED fs

(***************************************************************************)
(* RioRaster.pad_raster                                                    *)
(***************************************************************************)
PadSteps == MaterializeSteps \cup {"read"}

\* what dataset.read(window=..., boundless=False) does with a window that
\* leaves the raster: refuse it, or read the part inside and resample it
OutOfExtent == {"raise", "resample"}

\* rio.transform.rowcol(aff, xs, ys): floor of the inverse transform
rowcol(aff, xs, ys) ==
    << [i \in DOMAIN ys |-> FloorDiv(ys[i] - aff.f, aff.e)],
       [i \in DOMAIN xs |-> FloorDiv(xs[i] - aff.c, aff.a)] >>

\* windows.Window(col_off, row_off, width, height)
Window(col_off, row_off, width, height) ==
    [col_off |-> col_off, row_off |-> row_off, width |-> width, height |-> height]

\* windows.transform(window, transform)
window_transform(window, t) ==
    Affine(t.a, t.c + t.a * window.col_off, t.e, t.f + t.e * window.row_off)

\* a window that counts the far row and column in
pad_window_inclusive(cur, des_bounds) ==
    LET rc == rowcol(cur.transform, <<des_bounds[1], des_bounds[3]>>,
                     <<des_bounds[4], des_bounds[2]>>)
        rows == rc[1]
        cols == rc[2]
    IN  Window(cols[1], rows[1], cols[2] - cols[1] + 1, rows[2] - rows[1] + 1)

\* the window RioRaster.pad_raster computes on cur for the bounds des_bounds
pad_window(cur, des_bounds) ==
    LET rc == rowcol(cur.transform, <<des_bounds[1], des_bounds[3]>>,
                     <<des_bounds[4], des_bounds[2]>>)
        rows == rc[1]
        cols == rc[2]
    IN  Window(cols[1], rows[1], cols[2] - cols[1], rows[2] - rows[1])

\* does the window lie inside the raster
inside(window, ds) ==
    /\ window.col_off >= 0 /\ window.col_off + window.width <= ds.width
    /\ window.row_off >= 0 /\ window.row_off + window.height <= ds.height

\* nearest source index for index i of n, from the m indices after off
Nearest(i, n, off, m) == off + ((i - 1) * m) \div n + 1

\* dataset.read(window=window, boundless=False) for a window with pixels
read_window(ds, window, oob) ==
    LET c0 == Max(window.col_off, 0)
        r0 == Max(window.row_off, 0)
        c1 == Min(window.col_off + window.width, ds.width)
        r1 == Min(window.row_off + window.height, ds.height)
    IN  IF inside(window, ds)
        THEN Return([b \in 1..ds.count |->
                       [r \in 1..window.height |->
                          [c \in 1..window.width |->
                             ds.data[b][window.row_off + r][window.col_off + c]]]])
        ELSE IF oob = "raise" \/ c1 <= c0 \/ r1 <= r0
             THEN Raise("RasterioIOError")
        ELSE Return([b \in 1..ds.count |->
                       [r \in 1..window.height |->
                          [c \in 1..window.width |->
                             ds.data[b][Nearest(r, window.height, r0, r1 - r0)]
                                       [Nearest(c, window.width, c0, c1 - c0)]]]])

\* RioRaster.pad_raster(des_raster) on a handle holding cur; des is the
\* dataset des_raster holds
pad_raster(cur, des, fail, oob) ==
    LET aff == get_geo_transform(cur)
        des_bounds == get_bounds(des)
    IN  IF aff.exc # "none" THEN Raised(cur, aff.exc)
        ELSE IF des_bounds.exc # "none" THEN Raised(cur, des_bounds.exc)
        ELSE LET window == pad_window(cur, des_bounds.value)
                 kwargs == [MetaOf(cur) EXCEPT
                               !.crs = cur.crs,
                               !.transform = window_transform(window, aff.value),
                               !.width = window.width,
                               !.height = window.height]
                 data == read_window(cur, window, oob)
             IN  IF window.width <= 0 \/ window.height <= 0 \/ fail = "create"
                 THEN Raised(cur, "RasterioIOError")
                 ELSE IF fail = "read" THEN Raised(cur, "RasterioIOError")
                 ELSE IF data.exc # "none" THEN Raised(cur, data.exc)
                 ELSE IF fail \in {"write", "reopen"}
                      THEN Raised(cur, "RasterioIOError")
                 ELSE Effect(DatasetOf(MemName, kwargs, data.value,
                                       [b \in 1..cur.count |-> "None"]),
                             "none", "None", None, <<>>)

\* h.pad_raster(d)
PadRaster(h, d, fail, oob) ==
    /\ Tick
    /\ Apply("pad_raster", h, <<Ref(d)>>, pad_raster(dataset[h], dataset[d], fail, oob))
    /\ UNCHANGED fs

(***************************************************************************)
(* RioRaster.reclassify_raster                                             *)
(***************************************************************************)
Rule(cmp, lo, hi, code) == [cmp |-> cmp, lo |-> lo, hi |-> hi, code |-> code]

\* threshold rule sets, in insertion order
ThresholdArgs ==
    { << Rule("lt", 2, 2, 4), Rule("range", 2, 3, 1), Rule("gt", 4, 4, 3) >>,
      << Rule("gt", 1, 1, 1), Rule("gt", 3, 3, 2) >> }

matches(rule, v) ==
    CASE rule.cmp = "lt" -> v < rule.lo
      [] rule.cmp = "gt" -> v > rule.lo
      [] OTHER -> rule.lo <= v /\ v <= rule.hi

\* the class of one pixel: the code of the last rule that matches, else nodata
RECURSIVE classify(_, _, _, _)
classify(v, thresholds, k, acc) ==
    IF k > Len(thresholds) THEN acc
    ELSE classify(v, thresholds, k + 1,
                  IF matches(thresholds[k], v) THEN thresholds[k].code ELSE acc)

\* BandProcess.reclassify_band on a band of rows
reclassify_band(img_arr, thresholds, nodata) ==
    [r \in DOMAIN img_arr |->
        [c \in DOMAIN img_arr[r] |-> classify(img_arr[r][c], thresholds, 1, nodata)]]

\* RioRaster.get_spectral_resolution
get_spectral_resolution(cur) == cur.count

\* ndarray.astype(np.uint8)
Uint8(v) == v % 256

\* RioRaster.raster_from_array for the stack of per-band results, which
\* np.squeeze has stripped of the axes of length 1: a new dataset, or None
\* when the array has neither 2 nor 3 axes left or the dataset cannot be built
raster_from_array(res, height, width, crs, g_transform, nodata_value, fail) ==
    LET bands == Len(res)
        meta == [driver |-> "GTiff", dtype |-> "uint8", nodata |-> nodata_value,
                 crs |-> crs, transform |-> g_transform,
                 count |-> 0, height |-> 0, width |-> 0]
    IN  IF fail # "none" \/ (height = 1 /\ width = 1) THEN None
        ELSE IF height > 1 /\ width > 1
        THEN DatasetOf(MemName,
                       [meta EXCEPT !.count = bands, !.height = height, !.width = width],
                       res, [b \in 1..bands |-> "None"])
        ELSE DatasetOf(MemName,
                       [meta EXCEPT !.count = 1, !.height = bands,
                                    !.width = Max(height, width)],
                       << [b \in 1..bands |->
                             IF height = 1 THEN res[b][1]
                             ELSE [r \in 1..height |-> res[b][r][1]]] >>,
                       <<"None">>)

\* RioRaster.reclassify_raster(thresholds, band, nodata) on a handle holding cur
reclassify_raster(cur, thresholds, band, nodata, fail) ==
    LET own == get_nodata_value(cur)
    IN  IF own.exc # "none" THEN Raised(cur, own.exc)
        ELSE LET nd == IF own.value # None /\ own.value.v # nodata
                       THEN own.value.v ELSE nodata
                 no_of_bands == get_spectral_resolution(cur)
                 res == [band_no \in 1..no_of_bands |->
                            LET img_arr == get_data_array(cur, Num(band_no), FALSE)
                                               .value.data[1]
                                classified_data == reclassify_band(img_arr, thresholds, nd)
                            IN  [r \in DOMAIN classified_data |->
                                   [c \in DOMAIN classified_data[r] |->
                                       Uint8(classified_data[r][c])]]]
                 made == raster_from_array(res, cur.height, cur.width, cur.crs,
                                           cur.transform, own.value, fail)
             IN  IF made = None
                 THEN Effect(cur, "none", "None", None, <<"Error creating raster from array">>)
                 ELSE Effect(cur, "none", "new",
                             init_result(Reader(made), None, <<>>, "none").dataset, <<>>)

NodataArgs == {0, 5}

\* h.reclassify_raster(thresholds, band, nodata)
ReclassifyRaster(h, thresholds, band, nodata, fail) ==
    /\ Tick
    /\ Apply("reclassify_raster", h, <<thresholds, band, nodata>>,
             reclassify_raster(dataset[h], thresholds, band, nodata, fail))
    /\ UNCHANGED fs

(***************************************************************************)
(* RioRaster.write_to_file and save_to_file                                *)
(***************************************************************************)
\* os.makedirs(p, exist_ok=True): the file system afterwards, or the OSError
makedirs(fsx, p) ==
    IF fsx[p] = "dir" THEN [fs |-> fsx, exc |-> "none"]
    ELSE IF fsx[p] = "file" THEN [fs |-> fsx, exc |-> "FileExistsError"]
    ELSE IF p \in ReadOnlyPaths THEN [fs |-> fsx, exc |-> "PermissionError"]
    ELSE [fs |-> [fsx EXCEPT ![p] = "dir"], exc |-> "none"]

\* where writing the opened destination can break
WriteSteps == {"none", "write", "overviews"}

\* rio.open(img_des, 'w', driver=...) and the writes inside the with block:
\* the file system afterwards, or the RasterioIOError
rio_write(fsx, p, driver, io) ==
    IF fsx[p] = "dir" THEN [fs |-> fsx, exc |-> "RasterioIOError"]
    ELSE IF io = "write" \/ (io = "overviews" /\ driver = "COG")
         THEN [fs |-> [fsx EXCEPT ![p] = "file"], exc |-> "RasterioIOError"]
    ELSE [fs |-> [fsx EXCEPT ![p] = "file"], exc |-> "none"]

\* RioRaster.write_to_file: only rio.RasterioIOError is caught (and printed
\* with the destination); any other exception leaves the function
write_to_file(fsx, img_des, io) ==
    LET made == makedirs(fsx, img_des)
        driver == IF EndsWith(lower(img_des), <<".", "c", "o", "g">>)
                  THEN "COG" ELSE "GTiff"
        wrote == rio_write(made.fs, img_des, driver, io)
    IN  IF made.exc # "none"
        THEN [fs |-> made.fs, exc |-> made.exc, printed |-> <<>>]
        ELSE IF wrote.exc = "RasterioIOError"
             THEN [fs |-> wrote.fs, exc |-> "none",
                   printed |-> <<"Error writing raster to file", img_des, wrote.exc>>]
        ELSE [fs |-> wrote.fs, exc |-> wrote.exc, printed |-> <<>>]

DestArgs == {PathOutTif, PathOutCog, PathReadOnly, PathATif}

\* RioRaster.save_to_file(img_des) on a handle holding cur
save_to_file(cur, fsx, img_des, io) ==
    LET data == get_data_array(cur, None, FALSE)
    IN  IF data.exc # "none"
        THEN [fs |-> fsx, exc |-> data.exc, printed |-> <<>>]
        ELSE write_to_file(fsx, img_des, io)

\* RioRaster.write_to_file(img_des, data, crs, affine_transform, nodata_value)
\* with the array and metadata of an open dataset
WriteToFile(img_des, ds, io) ==
    /\ Tick
    /\ LET w == write_to_file(fs, img_des, io)
       IN  /\ fs' = w.fs
           /\ last' = Call("write_to_file", 0, <<img_des>>, ds,
                           IF w.exc = "none" THEN Return(None) ELSE Raise(w.exc),
                           w.printed)
    /\ UNCHANGED <<dataset, nhandles, ndatasets>>

\* h.save_to_file(img_des)
SaveToFile(h, img_des, io) ==
    /\ Tick
    /\ LET w == save_to_file(dataset[h], fs, img_des, io)
       IN  /\ fs' = w.fs
           /\ last' = Call("save_to_file", h, <<img_des>>, dataset[h],
                           IF w.exc = "none" THEN Return(None) ELSE Raise(w.exc),
                           w.printed)
    /\ UNCHANGED <<dataset, nhandles, ndatasets>>

(***************************************************************************)
(* Specifications: callers making calls on the handles they hold           *)
(***************************************************************************)
\* the failure of materialisation to inject: only where the source is
\* copied into memory
OpenFailures(src) ==
    IF src # None /\ src.kind = "DatasetReader"
          /\ Contains(VsiPythonFileLike, src.ds.name)
    THEN MaterializeSteps ELSE {"none"}

\* the crs argument matters for a bare polygon only
ClipCrs(aoi) == IF aoi.kind = "Polygon" THEN CrsArgs ELSE {"LOCAL:A"}

\* clip and pad, on handles opened from raster files, from an open dataset,
\* or empty
TransformSources == {Str(PathATif), Str(PathBTif), Reader(RasterFileLike), None}

NextTransform ==
    \/ \E src \in TransformSources : New(src, None, "none")
    \/ \E h \in Handles, aoi \in AoiArgs, in_place \in BOOLEAN, fail \in ClipSteps :
          \E crs \in ClipCrs(aoi) : ClipRaster(h, aoi, in_place, crs, fail)
    \/ \E h \in Handles, d \in Handles, fail \in PadSteps :
          \E oob \in IF fail = "none" THEN OutOfExtent ELSE {"raise"} :
              PadRaster(h, d, fail, oob)

SpecTransform == Init /\ [][NextTransform]_vars

\* every operation, with every argument of the model
Next ==
    \/ \E src \in Sources \cup {None}, prj \in PrjArgs :
          \E fail \in OpenFailures(src) : New(src, prj, fail)
    \/ \E h \in Handles, src \in Sources :
          \E fail \in OpenFailures(src) : SetDataset(h, src, fail)
    \/ \E h \in Handles, name \in AccessorNames : Access(h, name)
    \/ \E h \in Handles, band \in BandArgs, convert \in BOOLEAN :
          GetDataArray(h, band, convert)
    \/ \E h \in Handles, aoi \in AoiArgs, in_place \in BOOLEAN, fail \in ClipSteps :
          \E crs \in ClipCrs(aoi) : ClipRaster(h, aoi, in_place, crs, fail)
    \/ \E h \in Handles, d \in Handles, fail \in PadSteps :
          \E oob \in IF fail = "none" THEN OutOfExtent ELSE {"raise"} :
              PadRaster(h, d, fail, oob)
    \/ \E h \in Handles, thresholds \in ThresholdArgs, band \in BandArgs,
          nodata \in NodataArgs, fail \in {"none", "write"} :
          ReclassifyRaster(h, thresholds, band, nodata, fail)
    \/ \E img_des \in DestArgs, ds \in OpenDatasets, io \in WriteSteps :
          WriteToFile(img_des, ds, io)
    \/ \E h \in Handles, img_des \in DestArgs, io \in WriteSteps :
          SaveToFile(h, img_des, io)

Spec == Init /\ [][Next]_vars

(***************************************************************************)
(* Properties                                                              *)
(***************************************************************************)
\* the receiver of the last call held a dataset when it was called
LastBound == last.pre # None

\* the boxes and the CRS of the AOI of the last clip_raster call
LastAoiBoxes ==
    IF last.args[1].kind = "Polygon" THEN <<last.args[1].box>> ELSE last.args[1].boxes

LastAoiCrs ==
    IF last.args[1].kind = "Polygon" THEN last.args[3] ELSE last.args[1].crs

\* no feature of the AOI shares a point with the raster: in the raster's
\* CRS, its box lies wholly to one side of the raster's bounds
LastAoiMisses ==
    LET d == CrsShift(last.pre.crs) - CrsShift(LastAoiCrs)
        rb == DatasetBounds(last.pre)
    IN  \A i \in DOMAIN LastAoiBoxes :
            LET b == LastAoiBoxes[i]
            IN  \/ b[3] + d < rb[1] \/ b[1] + d > rb[3]
                \/ b[4] + d < rb[2] \/ b[2] + d > rb[4]

LastClip == last.op = "clip_raster" /\ LastBound

IsClipOf(new, old) ==
    /\ new # None
    /\ new.oid = ndatasets /\ new.oid > old.oid
    /\ new.crs = old.crs /\ new.count = old.count
    /\ new.nodata = Num(0)
    /\ new.descriptions = old.descriptions
    /\ LET nb == DatasetBounds(new)
           ob == DatasetBounds(old)
       IN  ob[1] <= nb[1] /\ ob[2] <= nb[2] /\ nb[3] <= ob[3] /\ nb[4] <= ob[4]

LastInPlace ==
    \/ last.op = "pad_raster" /\ LastBound
    \/ LastClip /\ last.args[2] /\ ~LastAoiMisses

\* C6: when an in-place clip or pad fails, the handle holds the dataset
\* object it held before the call; when it succeeds, a newly made one.
C6_OldDatasetKeptOnFailure ==
    LastInPlace =>
        IF last.exc # "none"
        THEN dataset[last.self] = last.pre
        ELSE dataset[last.self] # None /\ dataset[last.self].oid = ndatasets
                /\ dataset[last.self].oid > last.pre.oid

\* a pad to the raster's own bounds, whose window is always readable, has
\* failed while the new dataset was built
C6_Witness ==
    /\ last.op = "pad_raster" /\ LastBound
    /\ last.args[1] = Ref(last.self)
    /\ last.exc = "RasterioIOError"
    /\ dataset[last.self] = last.pre

\* the last call padded a bound raster to its own bounds
LastSelfPad ==
    last.op = "pad_raster" /\ LastBound /\ last.args[1] = Ref(last.self)

\* C7: pad_raster of a raster with itself as the reference computes the
\* window (0, 0, width, height) and leaves transform, width and height as
\* they were, however often it is applied.
C7_SelfPadIdempotent ==
    LastSelfPad =>
        /\ pad_window(last.pre, DatasetBounds(last.pre))
              = Window(0, 0, last.pre.width, last.pre.height)
        /\ dataset[last.self].transform = last.pre.transform
        /\ dataset[last.self].width = last.pre.width
        /\ dataset[last.self].height = last.pre.height

\* a raster already padded to itself has been padded to itself again
C7_Witness ==
    /\ LastSelfPad /\ last.exc = "none"
    /\ last.pre.descriptions = [b \in 1..last.pre.count |-> "None"]
    /\ dataset[last.self].oid > last.pre.oid
    /\ dataset[last.self].data = last.pre.data

\* the last call opened a source: RioRaster(src, prj_path) or set_dataset(src)
LastOpen == last.op \in {"__init__", "set_dataset"}

\* C3: on an empty handle get_meta, get_crs, get_geo_transform,
\* get_nodata_value and get_data_array all fail with the error the code
\* raises for an empty dataset, ValueError("raster dataset is empty").
C3_AccessorsRaiseEmptyError ==
    (last.op \in AccessorNames \cup {"get_data_array"} /\ last.pre = None) =>
        last.exc = "ValueError"

\* C4: opening a path that does not exist raises FileNotFoundError to the
\* caller.
C4_MissingPathRaises ==
    (LastOpen /\ \E p \in Paths : /\ last.args[1] = Str(p)
                                  /\ ~exists(fs, p)
                                  /\ ~Contains(VsimemPrefix, p)) =>
        last.exc = "FileNotFoundError"

\* C5: after an open attempt that failed (its exception was caught and
\* printed), the handle is empty, whatever it held before.
C5_FailedOpenLeavesEmpty ==
    (LastOpen /\ last.self # 0 /\ last.printed # <<>>) =>
        dataset[last.self] = None

\* C8: write_to_file returns normally whatever goes wrong with the
\* destination.
C8_WriteNeverRaises ==
    last.op = "write_to_file" => last.exc = "none"

\* C9: a handle opened with a source that binds and an existing .prj file has
\* the CRS of that file.
C9_PrjOverridesCrs ==
    (/\ last.op = "__init__" /\ last.self # 0
     /\ dataset[last.self] # None
     /\ last.args[2] # None
     /\ exists(fs, last.args[2].path)
     /\ EndsWith(last.args[2].path, <<".", "p", "r", "j">>)) =>
        dataset[last.self].crs = PrjCrs(last.args[2].path)

\* the classes of band b of ds, as reclassify_raster(thresholds, nodata)
\* computes them
ClassesOf(ds, b, thresholds, nodata) ==
    LET nd == IF ds.nodata # None /\ ds.nodata.v # nodata THEN ds.nodata.v ELSE nodata
        cls == reclassify_band(ds.data[b], thresholds, nd)
    IN  [r \in DOMAIN cls |-> [c \in DOMAIN cls[r] |-> Uint8(cls[r][c])]]

\* C10: reclassify_raster with a band returns a raster of one band, the
\* classes of that band; without one, a raster of the classes of every band,
\* in band order.
C10_BandArgumentSelectsBand ==
    (/\ last.op = "reclassify_raster" /\ LastBound
     /\ last.pre.width > 1 /\ last.pre.height > 1
     /\ last.exc = "none" /\ last.ret # None) =>
        LET out == dataset[last.ret.h]
            picked == IF last.args[2] # None /\ last.args[2].v \in 1..last.pre.count
                      THEN <<last.args[2].v>>
                      ELSE [b \in 1..last.pre.count |-> b]
        IN  /\ out.count = Len(picked)
            /\ out.data = [i \in 1..Len(picked) |->
                              ClassesOf(last.pre, picked[i], last.args[1], last.args[3])]

=============================================================================
